---- MODULE Spec2Model ----
(***************************************************************************)
(* Model of src/src/b00/std/b00_stubs_cpu.c: the OCaml stub                *)
(* ocaml_b00_cpu_logical_count, in its three preprocessor branches         *)
(* (Darwin/POSIX, Windows, unsupported).                                   *)
(*                                                                         *)
(* Machine integers keep their width.  The widths are scaled so that every *)
(* value of every C type can be enumerated: C's 32-bit types (int, DWORD,  *)
(* and long/intnat on a 32-bit ABI) have IntBits bits, and the 64-bit      *)
(* types (long on LP64, intnat/value on every 64-bit ABI) have 2*IntBits   *)
(* bits.  An OCaml integer has one bit less than the word (the tag bit).   *)
(***************************************************************************)
EXTENDS Integers, FiniteSets

\* Width, in bits, that stands for C's 32-bit int and DWORD.
IntBits == 4

\* Number of threads that may call the stub.
NThreads == 2

Threads == 1 .. NThreads

VARIABLES platform, word64, os, unit, pc, n, seen, ret

vars == <<platform, word64, os, unit, pc, n, seen, ret>>

----------------------------------------------------------------------------
\* Machine arithmetic

RECURSIVE Pow2(_)
Pow2(k) == IF k = 0 THEN 1 ELSE 2 * Pow2(k - 1)

\* The w-bit two's complement integer congruent to x.
ToSigned(x, w) ==
  LET m == x % Pow2(w)
  IN  IF m >= Pow2(w - 1) THEN m - Pow2(w) ELSE m

\* The w-bit unsigned integer congruent to x.
ToUnsigned(x, w) == x % Pow2(w)

\* Width of a machine word (intnat, value): 64-bit or 32-bit ABI.
WordBits == IF word64 THEN 2 * IntBits ELSE IntBits

\* Width of C's long on the POSIX branch: LP64 or ILP32.
LongBits == IF word64 THEN 2 * IntBits ELSE IntBits

INT_MAX == Pow2(IntBits - 1) - 1

INT_MIN == 0 - Pow2(IntBits - 1)

\* Largest OCaml integer a value of this word size can hold.
Max_long == Pow2(WordBits - 2) - 1

----------------------------------------------------------------------------
\* The OCaml runtime's representation of integers (caml/mlvalues.h)

\* Val_int(x) = ((intnat) (((uintnat) (intnat) (x)) << 1)) + 1, on a word of
\* WordBits bits: the shift drops the top bit of the word.
Val_int(x) == ToSigned(2 * ToUnsigned(x, WordBits), WordBits) + 1

\* Int_val(v) = v >> 1, an arithmetic shift: what the OCaml side reads.
Int_val(v) == v \div 2

\* The argument the OCaml side passes: () is Val_int (0); the stub is also
\* entered with another immediate value, to show that it is not read.
UnitArgs == {Val_int(0), Val_int(1)}

----------------------------------------------------------------------------
\* The three preprocessor branches and what the operating system reports

Platforms == {"posix", "windows", "unsupported"}

\* Every value the query's C type can carry: sysconf returns a long,
\* dwNumberOfProcessors is a DWORD; on the unsupported branch nothing is
\* queried and os is the machine's actual number of processors.
Reportable ==
  CASE platform = "posix" ->
         (0 - Pow2(LongBits - 1)) .. (Pow2(LongBits - 1) - 1)
    [] platform = "windows" -> 0 .. (Pow2(IntBits) - 1)
    [] OTHER -> 1 .. (Pow2(IntBits) - 1)

\* The reportable values at which the stub's conversions change behaviour,
\* used where the count changes while calls are in progress.
BoundaryCounts ==
  { -1 - Pow2(IntBits - 1), -1, 0, 1, Pow2(IntBits - 2), INT_MAX,
    INT_MAX + 1, Pow2(IntBits) - 1, Pow2(IntBits) } \cap Reportable

CachedCount ==
  IF \E u \in Threads : pc[u] = "done"
    THEN Int_val(ret[CHOOSE u \in Threads : pc[u] = "done"])
    ELSE os

\* sysconf (_SC_NPROCESSORS_ONLN): the count the OS reports now.
sysconf_SC_NPROCESSORS_ONLN == os

\* GetSystemInfo (&i); i.dwNumberOfProcessors: the count the OS reports now.
dwNumberOfProcessors == os

ShortOfLong(x) == ToSigned(x, IntBits - 1)

\* int n = sysconf (...): the long is converted to int (it wraps when it
\* does not fit, as the supported compilers implement the conversion).
IntOfLong(x) == ToSigned(x, IntBits)

ClampInverted(v) == IF v > 0 THEN 1 ELSE v

ClampBelowMinusOne(v) == IF v < -1 THEN 1 ELSE v

\* POSIX: if (n < 0) { n = 1; } on the int n.
PosixClampValue(v) == IF v < 0 THEN 1 ELSE v

SignedLess(a, b) == ToSigned(a, IntBits) < ToSigned(b, IntBits)

\* Windows: n < 0 with n a DWORD: the usual arithmetic conversions make
\* both operands unsigned.
DwordLess(a, b) == ToUnsigned(a, IntBits) < ToUnsigned(b, IntBits)

\* Windows: if (n < 0) { n = 1; } on the DWORD n.
WindowsClampValue(v) == IF DwordLess(v, 0) THEN 1 ELSE v

UnsupportedFromHw == os

\* Unsupported: the constant of return Val_int (1).
UnsupportedCount == 1

ReturnsUnit(v, u) == u

\* return Val_int (n): the function's result, given n and its argument.
ReturnExpr(v, u) == Val_int(v)

StaticLocal(t) == 1

\* The storage of the automatic variable n of thread t's activation.
Local(t) == t

PosixNextPcRetry(p) ==
  CASE p = "called" -> "queried"
    [] p = "queried" -> "called"
    [] OTHER -> "done"

\* POSIX: the statements of the body run once, in order.
PosixNextPc(p) ==
  CASE p = "called" -> "queried"
    [] p = "queried" -> "clamped"
    [] OTHER -> "done"

\* What a call returns when it runs alone and the OS reports c.
cpu_logical_count(c) ==
  CASE platform = "posix" -> ReturnExpr(PosixClampValue(IntOfLong(c)), unit)
    [] platform = "windows" -> ReturnExpr(WindowsClampValue(c), unit)
    [] OTHER -> ReturnExpr(UnsupportedCount, unit)

----------------------------------------------------------------------------
\* State
\*   platform  the preprocessor branch the stub was compiled for
\*   word64    whether the ABI is 64-bit
\*   os        the count the operating system reports now
\*   unit      the argument of the call entered last
\*   pc[t]     where thread t's call stands: "idle" (never called), "called",
\*             "queried", "clamped", "done" (returned)
\*   n[t]      the local variable n of thread t's call
\*   seen[t]   the count the OS reported to thread t's query
\*   ret[t]    the value thread t's call returned (0, no value, before)

TypeOK ==
  /\ platform \in Platforms
  /\ word64 \in BOOLEAN
  /\ os \in Reportable
  /\ unit \in UnitArgs
  /\ pc \in [Threads -> {"idle", "called", "queried", "clamped", "done"}]
  /\ n \in [Threads -> Int]
  /\ seen \in [Threads -> Int]
  /\ ret \in [Threads -> Int]

Start ==
  /\ platform \in Platforms
  /\ word64 \in BOOLEAN
  /\ unit = Val_int(0)
  /\ pc = [t \in Threads |-> "idle"]
  /\ n = [t \in Threads |-> 0]
  /\ seen = [t \in Threads |-> 0]
  /\ ret = [t \in Threads |-> 0]

Init == Start /\ os \in BoundaryCounts

\* The OCaml side calls the stub: a new activation, with its argument.
Call(t) ==
  /\ pc[t] \in {"idle", "done"}
  /\ \E u \in UnitArgs : unit' = u
  /\ pc' = [pc EXCEPT ![t] = "called"]
  /\ n' = [n EXCEPT ![Local(t)] = 0]
  /\ seen' = [seen EXCEPT ![t] = 0]
  /\ ret' = [ret EXCEPT ![t] = 0]
  /\ UNCHANGED <<platform, word64, os>>

\* POSIX: int n = sysconf (_SC_NPROCESSORS_ONLN);
PosixQuery(t) ==
  /\ platform = "posix"
  /\ pc[t] = "called"
  /\ n' = [n EXCEPT ![Local(t)] = IntOfLong(sysconf_SC_NPROCESSORS_ONLN)]
  /\ seen' = [seen EXCEPT ![t] = os]
  /\ pc' = [pc EXCEPT ![t] = PosixNextPc(pc[t])]
  /\ UNCHANGED <<platform, word64, os, unit, ret>>

\* POSIX: if (n < 0) { n = 1; }
PosixClamp(t) ==
  /\ platform = "posix"
  /\ pc[t] = "queried"
  /\ n' = [n EXCEPT ![Local(t)] = PosixClampValue(n[Local(t)])]
  /\ pc' = [pc EXCEPT ![t] = PosixNextPc(pc[t])]
  /\ UNCHANGED <<platform, word64, os, unit, seen, ret>>

\* POSIX: return Val_int (n);
PosixReturn(t) ==
  /\ platform = "posix"
  /\ pc[t] = "clamped"
  /\ ret' = [ret EXCEPT ![t] = ReturnExpr(n[Local(t)], unit)]
  /\ pc' = [pc EXCEPT ![t] = PosixNextPc(pc[t])]
  /\ UNCHANGED <<platform, word64, os, unit, n, seen>>

\* Windows: SYSTEM_INFO i; GetSystemInfo (&i); DWORD n = i.dwNumberOfProcessors;
WindowsQuery(t) ==
  /\ platform = "windows"
  /\ pc[t] = "called"
  /\ n' = [n EXCEPT ![Local(t)] = dwNumberOfProcessors]
  /\ seen' = [seen EXCEPT ![t] = os]
  /\ pc' = [pc EXCEPT ![t] = "queried"]
  /\ UNCHANGED <<platform, word64, os, unit, ret>>

\* Windows: if (n < 0) { n = 1; }
WindowsClamp(t) ==
  /\ platform = "windows"
  /\ pc[t] = "queried"
  /\ n' = [n EXCEPT ![Local(t)] = WindowsClampValue(n[Local(t)])]
  /\ pc' = [pc EXCEPT ![t] = "clamped"]
  /\ UNCHANGED <<platform, word64, os, unit, seen, ret>>

\* Windows: return Val_int (n);
WindowsReturn(t) ==
  /\ platform = "windows"
  /\ pc[t] = "clamped"
  /\ ret' = [ret EXCEPT ![t] = ReturnExpr(n[Local(t)], unit)]
  /\ pc' = [pc EXCEPT ![t] = "done"]
  /\ UNCHANGED <<platform, word64, os, unit, n, seen>>

\* Unsupported: return Val_int (1);
UnsupportedReturn(t) ==
  /\ platform = "unsupported"
  /\ pc[t] = "called"
  /\ ret' = [ret EXCEPT ![t] = ReturnExpr(UnsupportedCount, unit)]
  /\ pc' = [pc EXCEPT ![t] = "done"]
  /\ UNCHANGED <<platform, word64, os, unit, n, seen>>

\* The environment: processors go on or off line, or the query starts or
\* stops failing; the reported count becomes another reportable value.
OsChange ==
  /\ \E c \in BoundaryCounts \ {os} : os' = c
  /\ UNCHANGED <<platform, word64, unit, pc, n, seen, ret>>

\* One step of thread t's use of the stub.
Step(t) ==
  \/ Call(t)
  \/ PosixQuery(t)
  \/ PosixClamp(t)
  \/ PosixReturn(t)
  \/ WindowsQuery(t)
  \/ WindowsClamp(t)
  \/ WindowsReturn(t)
  \/ UnsupportedReturn(t)

Next ==
  \/ \E t \in Threads : Step(t)
  \/ OsChange

\* Calls from several threads while the reported count changes.
Spec == Init /\ [][Next]_vars

\* The stub as a function of the reported count: one caller, every value the
\* query's type can carry, the count fixed.
FunInit == Start /\ os \in Reportable

FunNext == Step(1)

FunSpec == FunInit /\ [][FunNext]_vars

\* A thread that entered the stub keeps running: no step of the body waits.
FairSpec == FunSpec /\ WF_vars(FunNext)

----------------------------------------------------------------------------
\* Vocabulary of the properties

Done(t) == pc[t] = "done"

Supported == platform \in {"posix", "windows"}

\* Largest count that both the local n and an OCaml integer can hold.
SafeMax ==
  LET localMax == IF platform = "posix" THEN INT_MAX ELSE Pow2(IntBits) - 1
  IN  IF localMax < Max_long THEN localMax ELSE Max_long

----------------------------------------------------------------------------
\* C1: on a supported branch the integer a call returns is at least 1,
\* whatever value the OS query reported.
C1_AtLeastOne ==
  \A t \in Threads : (Supported /\ Done(t)) => Int_val(ret[t]) >= 1

\* C2, as stated: on a supported branch, when the OS reports N > 0 the call
\* returns exactly N.
C2_PositiveReturned ==
  \A t \in Threads :
    (Supported /\ Done(t) /\ seen[t] > 0) => Int_val(ret[t]) = seen[t]

\* C2, amended: on a supported branch, when the OS reports N with
\* 0 < N <= SafeMax (N fits the local n and an OCaml integer) the call
\* returns exactly N.
C2_PositiveInRangeReturned ==
  \A t \in Threads :
    (Supported /\ Done(t) /\ seen[t] \in 1 .. SafeMax)
      => Int_val(ret[t]) = seen[t]

C2_Witness ==
  /\ platform = "windows"
  /\ Done(1)
  /\ seen[1] = SafeMax
  /\ Int_val(ret[1]) = SafeMax

\* C3, as stated: on the POSIX branch, when sysconf reports a negative value
\* the call returns exactly 1.
C3_NegativeGivesOne ==
  \A t \in Threads :
    (platform = "posix" /\ Done(t) /\ seen[t] < 0) => Int_val(ret[t]) = 1

\* C3, amended: on the POSIX branch, when sysconf reports a negative value
\* that fits an int (INT_MIN .. -1, so -1 in particular) the call returns
\* exactly 1, a well-formed OCaml integer.
C3_NegativeIntGivesOne ==
  \A t \in Threads :
    (platform = "posix" /\ Done(t) /\ seen[t] \in INT_MIN .. -1)
      => (ret[t] = Val_int(1) /\ Int_val(ret[t]) = 1)

C3_Witness ==
  /\ platform = "posix"
  /\ Done(1)
  /\ seen[1] = -1
  /\ Int_val(ret[1]) = 1

\* C4: on the unsupported branch every call returns 1, whatever the number
\* of processors is and however it changes.
C4_UnsupportedAlwaysOne ==
  \A t \in Threads :
    (platform = "unsupported" /\ Done(t)) => Int_val(ret[t]) = 1

C4_Witness ==
  /\ platform = "unsupported"
  /\ \A t \in Threads : Done(t) /\ Int_val(ret[t]) = 1
  /\ os > 1

\* C5: nothing is cached: two completed calls to which the OS reported the
\* same count returned the same value, and the local n of a call holds the
\* count the OS reported to that call's own query.
C5_FreshEachCall ==
  /\ \A t, u \in Threads :
       (Done(t) /\ Done(u) /\ seen[t] = seen[u]) => ret[t] = ret[u]
  /\ \A t \in Threads :
       pc[t] = "queried" =>
         n[t] = (IF platform = "posix" THEN IntOfLong(seen[t]) ELSE seen[t])

C5_Witness ==
  \E t, u \in Threads :
    /\ Supported
    /\ Done(t) /\ Done(u)
    /\ seen[t] # seen[u]
    /\ Int_val(ret[t]) = seen[t]
    /\ Int_val(ret[u]) = seen[u]

\* C6: under every interleaving, a completed call returned what a call
\* running alone returns for the count its own query read.
C6_NoInterference ==
  \A t \in Threads : Done(t) => ret[t] = cpu_logical_count(seen[t])

C6_Witness ==
  \E t, u \in Threads :
    /\ Supported
    /\ Done(t)
    /\ pc[u] = "queried"
    /\ seen[t] # seen[u]
    /\ n[t] # n[u]
    /\ ret[t] = cpu_logical_count(seen[t])

\* C7: every call that was entered returns, with one well-formed OCaml
\* integer (an odd word) as its result.
C7_Terminates ==
  \A t \in Threads :
    (pc[t] = "called") ~> (pc[t] = "done" /\ ret[t] % 2 = 1)

C7_Witness ==
  /\ platform = "posix"
  /\ Done(1)
  /\ seen[1] < INT_MIN
  /\ ret[1] % 2 = 1

\* C8: on the Windows branch the clamp never fires: the value handed to
\* Val_int is the value of dwNumberOfProcessors, for every value of the field.
C8_WindowsClampDead ==
  \A t \in Threads :
    (platform = "windows" /\ pc[t] \in {"clamped", "done"}) => n[t] = seen[t]

C8_Witness ==
  /\ platform = "windows"
  /\ pc[1] = "clamped"
  /\ seen[1] >= Pow2(IntBits - 1)
  /\ n[1] = seen[1]

\* C9: a step of a call changes nothing outside the call: not the count the
\* OS reports, not the state of another thread's call; what it returns is
\* Val_int of its local n, whatever its argument was.
C9_NoSideEffect ==
  [][\A t \in Threads :
       pc'[t] # pc[t] =>
         /\ os' = os
         /\ platform' = platform
         /\ word64' = word64
         /\ \A u \in Threads \ {t} :
              /\ pc'[u] = pc[u]
              /\ n'[u] = n[u]
              /\ seen'[u] = seen[u]
              /\ ret'[u] = ret[u]
         /\ pc'[t] # "called" => unit' = unit
         /\ (Supported /\ pc'[t] = "done") => ret'[t] = Val_int(n[t])]_vars

C9_Witness ==
  \E t \in Threads :
    /\ Supported
    /\ Done(t)
    /\ \A u \in Threads \ {t} : pc[u] = "idle"
    /\ unit # Val_int(0)
    /\ os = seen[t]
    /\ ret[t] = Val_int(n[t])

\* C10, as stated: the width conversions lose nothing: for every count
\* (>= 0) the OS can report, decoding the returned value yields that count.
C10_NoLoss ==
  \A t \in Threads :
    (Supported /\ Done(t) /\ seen[t] >= 0) => Int_val(ret[t]) = seen[t]

\* C10, amended: the narrowing of sysconf's long loses nothing when the
\* count fits an int, Val_int loses nothing when n is at most Max_long, and
\* so decoding the returned value yields the count for 0 <= count <= SafeMax.
C10_NoLossInRange ==
  \A t \in Threads :
    /\ (platform = "posix" /\ pc[t] = "queried"
          /\ seen[t] \in INT_MIN .. INT_MAX) => n[t] = seen[t]
    /\ (Supported /\ Done(t) /\ n[t] \in 0 .. Max_long)
         => Int_val(ret[t]) = n[t]
    /\ (Supported /\ Done(t) /\ seen[t] \in 0 .. SafeMax)
         => Int_val(ret[t]) = seen[t]

C10_Witness ==
  /\ platform = "posix"
  /\ word64
  /\ Done(1)
  /\ seen[1] = INT_MAX
  /\ Int_val(ret[1]) = INT_MAX

====
